---- MODULE Spec2Model ----
(***************************************************************************)
(* Model of the rental-listing import script (importListings,              *)
(* processAllFiles), the Prisma schema it writes to, and the batch         *)
(* classification script (categorizeAllListings).                          *)
(*                                                                         *)
(* Conventions.  JavaScript strings are TLA+ strings.  The import script   *)
(* only ever tests raw-document fields for truthiness, so an absent string *)
(* field and an empty one are both "" and an absent number and 0 are both  *)
(* 0.  A nullable column of the store is <<>> (NULL) or <<v>>.  Numbers    *)
(* with a fractional part are integers scaled by 1000 (parseFloat), money  *)
(* in the store is an integer number of cents (Decimal(10, 2)).            *)
(***************************************************************************)
EXTENDS Integers, Sequences, FiniteSets, TLC

(* ------------------------------------------------------------------ *)
(* Bounds of the model                                                  *)
(* ------------------------------------------------------------------ *)
MaxDocs == 2
MaxClock == 1
MaxBedrooms == 5

(* ------------------------------------------------------------------ *)
(* String primitives of the JavaScript runtime                          *)
(* ------------------------------------------------------------------ *)
UpperChars == "ABCDEFGHIJKLMNOPQRSTUVWXYZ"
LowerChars == "abcdefghijklmnopqrstuvwxyz"
DigitChars == "0123456789"

CharAt(s, i) == SubSeq(s, i, i)

\* String.prototype.includes
Includes(s, sub) ==
  \E i \in 1..(Len(s) - Len(sub) + 1) : SubSeq(s, i, i + Len(sub) - 1) = sub

LowerChar(c) ==
  IF \E i \in 1..26 : CharAt(UpperChars, i) = c
  THEN CharAt(LowerChars, CHOOSE i \in 1..26 : CharAt(UpperChars, i) = c)
  ELSE c

\* String.prototype.toLowerCase, from position i on
RECURSIVE LowerFrom(_, _)
LowerFrom(s, i) ==
  IF i > Len(s) THEN "" ELSE LowerChar(CharAt(s, i)) \o LowerFrom(s, i + 1)

toLowerCase(s) == LowerFrom(s, 1)

IsDigit(c) == \E i \in 1..10 : CharAt(DigitChars, i) = c
DigitVal(c) == (CHOOSE i \in 1..10 : CharAt(DigitChars, i) = c) - 1
IsSpace(c) == c \in {" ", "\t", "\n", "\r"}

\* End (exclusive) of the maximal run of characters satisfying a class,
\* starting at position i.
RECURSIVE DigitsEnd(_, _)
DigitsEnd(s, i) == IF i <= Len(s) /\ IsDigit(CharAt(s, i)) THEN DigitsEnd(s, i + 1) ELSE i

RECURSIVE SpacesEnd(_, _)
SpacesEnd(s, i) == IF i <= Len(s) /\ IsSpace(CharAt(s, i)) THEN SpacesEnd(s, i + 1) ELSE i

\* Start (inclusive) of the maximal run of blanks that ends at position i
RECURSIVE SpacesStart(_, _)
SpacesStart(s, i) == IF i >= 1 /\ IsSpace(CharAt(s, i)) THEN SpacesStart(s, i - 1) ELSE i + 1

\* String.prototype.trim
trim(s) == SubSeq(s, SpacesEnd(s, 1), SpacesStart(s, Len(s)) - 1)

\* parseInt of a string of decimal digits: the value of its first n digits
RECURSIVE DigitsValue(_, _)
DigitsValue(s, n) ==
  IF n = 0 THEN 0 ELSE 10 * DigitsValue(s, n - 1) + DigitVal(CharAt(s, n))

parseInt(s) == DigitsValue(s, Len(s))

\* s.match(/(\d+)\s*word/i): <<>> when there is no match, else <<group 1>>.
\* The word starts with a letter, so the greedy digit run and the greedy
\* blank run are the only split that can match; the leftmost start wins.
MatchCountAt(s, i, word) ==
  LET d == DigitsEnd(s, i)
      w == SpacesEnd(s, d)
  IN  /\ d > i
      /\ w + Len(word) - 1 <= Len(s)
      /\ toLowerCase(SubSeq(s, w, w + Len(word) - 1)) = word

MatchCount(s, word) ==
  LET starts == {i \in 1..Len(s) : MatchCountAt(s, i, word)}
  IN  IF starts = {} THEN <<>>
      ELSE LET i == CHOOSE k \in starts : \A m \in starts : k <= m
           IN  <<SubSeq(s, i, DigitsEnd(s, i) - 1)>>

\* parseFloat on an unsigned decimal literal with an optional fraction,
\* leading blanks skipped, trailing garbage ignored.  <<>> is NaN, <<m>> is
\* the number m / 1000 (digits past the third decimal are dropped).
RECURSIVE PadRight3(_)
PadRight3(s) == IF Len(s) >= 3 THEN SubSeq(s, 1, 3) ELSE PadRight3(s \o "0")

parseFloat(str) ==
  LET s  == str
      b  == SpacesEnd(s, 1)
      e  == DigitsEnd(s, b)
      hasDot == e <= Len(s) /\ CharAt(s, e) = "."
      fe == IF hasDot THEN DigitsEnd(s, e + 1) ELSE e
      ip == SubSeq(s, b, e - 1)
      fp == IF hasDot THEN SubSeq(s, e + 1, fe - 1) ELSE ""
  IN  IF ip = "" /\ fp = "" THEN <<>>
      ELSE <<1000 * parseInt(ip) + parseInt(PadRight3(fp))>>

\* A conversion to cents that drops the fraction of a cent
RoundTimes100Down(m) == m \div 10

\* Math.round(x * 100) for x = m / 1000: round half up
RoundTimes100(m) == (m + 5) \div 10

\* Number.prototype.toFixed(2) for x = m / 1000, m >= 0
Pad2(n) == IF n < 10 THEN "0" \o ToString(n) ELSE ToString(n)
toFixed2(m) ==
  LET c == RoundTimes100(m)
  IN  ToString(c \div 100) \o "." \o Pad2(c % 100)

\* Decimal.prototype.toString of a Decimal(10, 2) holding c cents, in the
\* shortest form (no trailing zeros) ...
DecimalShortest(c) ==
  IF c % 100 = 0 THEN ToString(c \div 100)
  ELSE IF c % 10 = 0 THEN ToString(c \div 100) \o "." \o ToString((c % 100) \div 10)
  ELSE ToString(c \div 100) \o "." \o Pad2(c % 100)
\* ... or in the form the column is declared with (two decimals).
DecimalScale2(c) == ToString(c \div 100) \o "." \o Pad2(c % 100)

(* ------------------------------------------------------------------ *)
(* Raw documents (one element of the JSON array of a file)              *)
(* ------------------------------------------------------------------ *)
\* The fields of a raw item that importListings reads, flattened:
\*   id                      item.id
\*   amount                  item.listing_price.amount
\*   rg_city, rg_state       item.location.reverse_geocode.{city,state}
\*   rgd_city, rgd_state,
\*   postal_code             item.listing_details.location.reverse_geocode_detailed.*
\*   street                  item.listing_details.home_address.street
\*   subtitles               item.custom_sub_titles_with_rendering_flags[].subtitle
\*   latitude, longitude     item.listing_details.location.{latitude,longitude}
\*   title_text              item.listing_title.text
\*   item_description        item.description
\*   item_bedrooms,
\*   item_bathrooms          item.bedrooms, item.bathrooms
\*   unit_room_info          item.listing_details.unit_room_info; its kind is
\*                           "string" or "number" (a number has no .match)
\*   sections                item.listing_details.pdp_display_sections[]
\*                               .pdp_fields[].display_label
\*   redacted_description    item.listing_details.redacted_description.text
\*   primary_photo           item.primary_listing_photo.image.uri
\*   gallery_photo           item.listing_details.listing_photos[0].image.uri
\*   marketplace_listing_title, custom_title, creation_time
\*   is_null                 the array element is null, not an object
EmptyItem ==
  [id |-> "", amount |-> "", rg_city |-> "", rg_state |-> "", rgd_city |-> "",
   rgd_state |-> "", postal_code |-> "", street |-> "", subtitles |-> <<>>,
   latitude |-> 0, longitude |-> 0, title_text |-> "", item_description |-> "",
   item_bedrooms |-> 0, item_bathrooms |-> 0, unit_room_info |-> "",
   unit_room_info_kind |-> "string", sections |-> <<>>,
   redacted_description |-> "", primary_photo |-> "", gallery_photo |-> "",
   marketplace_listing_title |-> "", custom_title |-> "", creation_time |-> 0,
   is_null |-> FALSE]

\* JavaScript's a || b on strings and on numbers
OrStr(a, b) == IF a # "" THEN a ELSE b
OrNum(a, b) == IF a # 0 THEN a ELSE b

\* All display labels of an item in encounter order
RECURSIVE Flatten(_)
Flatten(ss) == IF ss = <<>> THEN <<>> ELSE Head(ss) \o Flatten(Tail(ss))

(* ------------------------------------------------------------------ *)
(* extractBedroomCount / extractBathroomCount                           *)
(* ------------------------------------------------------------------ *)
\* Shared body of the two functions; word is "bedroom" or "bathroom" and
\* structured is item.bedrooms or item.bathrooms.  0 stands for undefined.
extractCount(item, word, structured) ==
  LET t == IF item.title_text # "" /\ Includes(item.title_text, word)
           THEN MatchCount(item.title_text, word) ELSE <<>>
      d == IF item.item_description # "" /\ Includes(item.item_description, word)
           THEN MatchCount(item.item_description, word) ELSE <<>>
  IN  IF t # <<>> THEN parseInt(t[1])
      ELSE IF d # <<>> THEN parseInt(d[1])
      ELSE structured

extractBedroomCount(item) == extractCount(item, "bedroom", item.item_bedrooms)
extractBathroomCount(item) == extractCount(item, "bathroom", item.item_bathrooms)

(* ------------------------------------------------------------------ *)
(* determineListingCategory                                             *)
(* ------------------------------------------------------------------ *)
IncludesAny(s, subs) == \E k \in subs : Includes(s, k)

\* A categorizer that looks at the bedroom count before the description
determineListingCategoryCountFirst(description, bedrooms) ==
  IF description = "" THEN "unknown"
  ELSE IF bedrooms # 0 THEN ToString(bedrooms) \o "bdr apartment"
  ELSE "unknown"

determineListingCategory(description, bedrooms) ==
  IF description = "" THEN "unknown"
  ELSE
    LET desc == toLowerCase(description) IN
    IF IncludesAny(desc, {"airbnb", "short term", "short-term", "nightly",
                          "per night", "vacation rental"})
    THEN "airbnb"
    ELSE IF Includes(desc, "studio") THEN "studio apartment"
    ELSE IF IncludesAny(desc, {"room for rent", "roommate", "shared apartment",
                               "shared kitchen", "shared bathroom"})
    THEN "bedroom"
    ELSE IF IncludesAny(desc, {"shared room", "shared bedroom"}) THEN "bed"
    ELSE IF bedrooms # 0 THEN ToString(bedrooms) \o "bdr apartment"
    ELSE IF IncludesAny(desc, {"1 bedroom", "1-bedroom", "one bedroom"})
    THEN "1bdr apartment"
    ELSE IF IncludesAny(desc, {"2 bedroom", "2-bedroom", "two bedroom"})
    THEN "2bdr apartment"
    ELSE IF IncludesAny(desc, {"3 bedroom", "3-bedroom", "three bedroom"})
    THEN "3bdr apartment"
    ELSE IF IncludesAny(desc, {"4 bedroom", "4-bedroom", "four bedroom"})
    THEN "4bdr apartment"
    ELSE "unknown"

(* ------------------------------------------------------------------ *)
(* Field extraction of importListings (the part before the id check)    *)
(* ------------------------------------------------------------------ *)
\* First subtitle that is non-empty and contains neither city nor state
RECURSIVE FirstSubtitle(_, _, _)
FirstSubtitle(subs, city, state) ==
  IF subs = <<>> THEN ""
  ELSE IF Head(subs) # "" /\ ~Includes(Head(subs), city) /\ ~Includes(Head(subs), state)
  THEN Head(subs)
  ELSE FirstSubtitle(Tail(subs), city, state)

LabelIsPet(l) ==
  l # "" /\ IncludesAny(toLowerCase(l), {"pet", "dog", "cat"})

LabelIsAmenity(l) ==
  l # "" /\ ~Includes(l, "bed") /\ ~Includes(l, "bath") /\ ~Includes(l, "Available")

RECURSIVE Amenities(_)
Amenities(ls) ==
  IF ls = <<>> THEN <<>>
  ELSE IF LabelIsAmenity(Head(ls)) THEN <<Head(ls)>> \o Amenities(Tail(ls))
  ELSE Amenities(Tail(ls))

\* A Date value: parsed from a label ("label", the yyyy/mm/dd text), read
\* from the clock ("clock", the instant) or built from creation_time.
DateOfLabel(day) == [src |-> "label", day |-> day, t |-> 0]
DateOfClock(t) == [src |-> "clock", day |-> "", t |-> t]
DateOfCreation(c) == [src |-> "creation_time", day |-> "", t |-> c]

\* label.match(/Available\s+(\d{4}\/\d{2}\/\d{2})/i): <<>> or <<group 1>>
IsDayAt(s, i) ==
  /\ i + 9 <= Len(s)
  /\ \A k \in {0, 1, 2, 3, 5, 6, 8, 9} : IsDigit(CharAt(s, i + k))
  /\ CharAt(s, i + 4) = "/"
  /\ CharAt(s, i + 7) = "/"

AvailableMatchAt(s, i) ==
  /\ i + 8 <= Len(s)
  /\ toLowerCase(SubSeq(s, i, i + 8)) = "available"
  /\ SpacesEnd(s, i + 9) > i + 9
  /\ IsDayAt(s, SpacesEnd(s, i + 9))

AvailableMatch(s) ==
  LET starts == {i \in 1..Len(s) : AvailableMatchAt(s, i)}
  IN  IF starts = {} THEN <<>>
      ELSE LET i == CHOOSE k \in starts : \A m \in starts : k <= m
               d == SpacesEnd(s, i + 9)
           IN  <<SubSeq(s, d, d + 9)>>

\* The first field of a section whose label contains 'Available' decides for
\* that section (the break leaves the inner loop only); a later section
\* overrides an earlier one when it yields a date.
RECURSIVE FirstAvailable(_)
FirstAvailable(fields) ==
  IF fields = <<>> THEN ""
  ELSE IF Head(fields) # "" /\ Includes(Head(fields), "Available") THEN Head(fields)
  ELSE FirstAvailable(Tail(fields))

RECURSIVE AvailableDate(_, _, _)
AvailableDate(sections, acc, today) ==
  IF sections = <<>> THEN acc
  ELSE LET l == FirstAvailable(Head(sections))
           m == IF l = "" THEN <<>> ELSE AvailableMatch(l)
           next == IF l = "" THEN acc
                   ELSE IF m # <<>> THEN <<DateOfLabel(m[1])>>
                   ELSE IF Includes(toLowerCase(l), "now") THEN <<DateOfClock(today)>>
                   ELSE acc
       IN  AvailableDate(Tail(sections), next, today)

\* Lines 88-231: the candidate values of one item.  throws is TRUE when the
\* evaluation raises a TypeError (unit_room_info that is not a string has no
\* match method); the other fields are then meaningless.
Extract(item, today) ==
  LET parsed == IF item.amount # "" THEN parseFloat(item.amount) ELSE <<>>
      priceInCents == IF parsed # <<>> THEN RoundTimes100(parsed[1]) ELSE 0
      city == OrStr(item.rg_city, OrStr(item.rgd_city, ""))
      state == OrStr(item.rg_state, OrStr(item.rgd_state, ""))
      streetAddress ==
        IF item.street # "" THEN item.street
        ELSE FirstSubtitle(item.subtitles, city, state)
      bedrooms0 == extractBedroomCount(item)
      bathrooms0 == extractBathroomCount(item)
      useRoomInfo == item.unit_room_info # "" /\ bedrooms0 = 0 /\ bathrooms0 = 0
      bedM == IF useRoomInfo THEN MatchCount(item.unit_room_info, "bed") ELSE <<>>
      bathM == IF useRoomInfo THEN MatchCount(item.unit_room_info, "bath") ELSE <<>>
      labels == Flatten(item.sections)
      description == item.redacted_description
      descText == toLowerCase(description)
  IN  [throws |-> useRoomInfo /\ item.unit_room_info_kind # "string",
       id |-> item.id,
       priceInCents |-> priceInCents,
       listingTitle |-> OrStr(item.marketplace_listing_title, OrStr(item.custom_title, "")),
       city |-> city,
       state |-> state,
       postalCode |-> item.postal_code,
       streetAddress |-> streetAddress,
       latitude |-> item.latitude,
       longitude |-> item.longitude,
       bedrooms |-> IF bedM # <<>> THEN parseInt(bedM[1]) ELSE bedrooms0,
       bathrooms |-> IF bathM # <<>> THEN parseInt(bathM[1]) ELSE bathrooms0,
       petFriendly |->
         \/ \E i \in 1..Len(labels) : LabelIsPet(labels[i])
         \/ /\ description # ""
            /\ IncludesAny(descText, {"pet friendly", "pets allowed", "pet-friendly",
                                      "dogs allowed", "cats allowed"}),
       availableDate |-> AvailableDate(item.sections, <<>>, today),
       amenities |-> Amenities(labels),
       imageUrl |-> OrStr(item.primary_photo, OrStr(item.gallery_photo, "")),
       description |-> description,
       creation_time |-> item.creation_time]

(* ------------------------------------------------------------------ *)
(* The store: tables Listing and PriceHistory of the Prisma schema      *)
(* ------------------------------------------------------------------ *)
Opt(cond, v) == IF cond THEN <<v>> ELSE <<>>

\* The data argument of prisma.listing.create / update: <<>> for a key that
\* is not set, <<v>> for a key that is.
NoData ==
  [price |-> <<>>, listingTitle |-> <<>>, city |-> <<>>, state |-> <<>>,
   postalCode |-> <<>>, streetAddress |-> <<>>, description |-> <<>>,
   latitude |-> <<>>, longitude |-> <<>>, bedrooms |-> <<>>, bathrooms |-> <<>>,
   amenities |-> <<>>, petFriendly |-> <<>>, availableDate |-> <<>>,
   imageUrl |-> <<>>, listedDate |-> <<>>, ai_category_v1 |-> <<>>]

\* Lines 244-269: the record importListings hands to the store
dbData(c) ==
  [price |-> <<toFixed2(c.priceInCents * 10)>>,
   listingTitle |-> Opt(c.listingTitle # "", c.listingTitle),
   city |-> Opt(c.city # "", c.city),
   state |-> Opt(c.state # "", c.state),
   postalCode |-> Opt(c.postalCode # "", c.postalCode),
   streetAddress |-> Opt(c.streetAddress # "", c.streetAddress),
   description |-> Opt(c.description # "", c.description),
   latitude |-> Opt(c.latitude # 0, ToString(c.latitude)),
   longitude |-> Opt(c.longitude # 0, ToString(c.longitude)),
   bedrooms |-> Opt(c.bedrooms # 0, c.bedrooms),
   bathrooms |-> Opt(c.bathrooms # 0, c.bathrooms),
   amenities |-> Opt(Len(c.amenities) > 0, c.amenities),
   petFriendly |-> <<c.petFriendly>>,
   availableDate |-> c.availableDate,
   imageUrl |-> Opt(c.imageUrl # "", c.imageUrl),
   listedDate |-> Opt(c.creation_time # 0, DateOfCreation(c.creation_time)),
   ai_category_v1 |-> <<determineListingCategory(c.description, c.bedrooms)>>]

\* A Decimal(10, 2) column takes the decimal string it is given: cents
DecimalOfString(str) == RoundTimes100(parseFloat(str)[1])

Default(opt, v) == IF opt # <<>> THEN opt[1] ELSE v

\* prisma.listing.create: columns without a value get the schema's default
\* (NULL for an optional column).  scrapedAt, which no script writes or
\* reads, is left out.
CreateRow(id, data, today) ==
  [id |-> id,
   listingTitle |-> data.listingTitle,
   price |-> DecimalOfString(data.price[1]),
   city |-> data.city,
   state |-> data.state,
   postalCode |-> data.postalCode,
   streetAddress |-> data.streetAddress,
   latitude |-> data.latitude,
   longitude |-> data.longitude,
   squareFeet |-> <<>>,
   bedrooms |-> data.bedrooms,
   bathrooms |-> data.bathrooms,
   description |-> data.description,
   amenities |-> Default(data.amenities, <<>>),
   petFriendly |-> <<Default(data.petFriendly, FALSE)>>,
   availableDate |-> data.availableDate,
   listedDate |-> Default(data.listedDate, DateOfClock(today)),
   updatedAt |-> DateOfClock(today),
   ai_category_v1 |-> data.ai_category_v1,
   imageUrl |-> data.imageUrl,
   listingUrl |-> <<>>,
   country |-> <<>>]

\* An update that writes no column
MergeNothing(old, new) == old

Merge(old, new) == IF new # <<>> THEN new ELSE old

\* A scalar list column: the new list is pushed onto the old one ...
MergeListPush(old, new) == old \o Default(new, <<>>)
\* ... or, as update does with a plain value, replaces it when it is given
MergeList(old, new) == Default(new, old)

\* prisma.listing.update: the keys of data replace the columns, the other
\* columns stay, @updatedAt is set by the client
UpdateRow(row, data, today) ==
  [row EXCEPT
     !.listingTitle = Merge(@, data.listingTitle),
     !.price = IF data.price # <<>> THEN DecimalOfString(data.price[1]) ELSE @,
     !.city = Merge(@, data.city),
     !.state = Merge(@, data.state),
     !.postalCode = Merge(@, data.postalCode),
     !.streetAddress = Merge(@, data.streetAddress),
     !.latitude = Merge(@, data.latitude),
     !.longitude = Merge(@, data.longitude),
     !.bedrooms = Merge(@, data.bedrooms),
     !.bathrooms = Merge(@, data.bathrooms),
     !.description = Merge(@, data.description),
     !.amenities = MergeList(@, data.amenities),
     !.petFriendly = Merge(@, data.petFriendly),
     !.availableDate = Merge(@, data.availableDate),
     !.listedDate = Default(data.listedDate, @),
     !.updatedAt = DateOfClock(today),
     !.ai_category_v1 = Merge(@, data.ai_category_v1),
     !.imageUrl = Merge(@, data.imageUrl)]

\* A lookup that never finds the row
findUniqueNone(table, id) == <<>>

\* prisma.listing.findUnique({where: {id}}): <<>> (null) or <<row>>
findUnique(table, id) ==
  IF \E r \in table : r.id = id
  THEN <<CHOOSE r \in table : r.id = id>>
  ELSE <<>>

\* The table after update({where: {id}, data})
TableUpdate(table, id, data, today) ==
  {IF r.id = id THEN UpdateRow(r, data, today) ELSE r : r \in table}

\* The table after create({data})
TableCreate(table, id, data, today) == table \cup {CreateRow(id, data, today)}

(* ------------------------------------------------------------------ *)
(* parseAIResponse                                                      *)
(* ------------------------------------------------------------------ *)
batchSize == 2

VALID_CATEGORIES ==
  {"airbnb", "studio apartment", "1bdr apartment", "2bdr apartment",
   "3bdr apartment", "4bdr apartment", "bedroom", "bed", "other", "unknown"}

\* String.prototype.split('\n')
RECURSIVE SplitLines(_)
SplitLines(s) ==
  IF \E i \in 1..Len(s) : CharAt(s, i) = "\n"
  THEN LET i == CHOOSE k \in 1..Len(s) :
                  CharAt(s, k) = "\n" /\ \A m \in 1..(k - 1) : CharAt(s, m) # "\n"
       IN  <<SubSeq(s, 1, i - 1)>> \o SplitLines(SubSeq(s, i + 1, Len(s)))
  ELSE <<s>>

\* '.' of a regular expression matches no line terminator
HasLineTerminator(s) == \E i \in 1..Len(s) : CharAt(s, i) \in {"\n", "\r"}

\* line.match(/^\d+\.\s*(.+)$/) || line.match(/^(.+)$/): <<>> or <<group 1>>.
\* After 'N.' the blanks are skipped greedily, but the group keeps one
\* character when nothing else is left.
MatchLine(line) ==
  LET d == DigitsEnd(line, 1)
      numbered == d > 1 /\ d < Len(line) /\ CharAt(line, d) = "."
      w == SpacesEnd(line, d + 1)
  IN  IF line = "" \/ HasLineTerminator(line) THEN <<>>
      ELSE IF numbered
      THEN <<SubSeq(line, IF w > Len(line) THEN Len(line) ELSE w, Len(line))>>
      ELSE <<line>>

\* parseAIResponse: <<>> when it throws, else <<categories>>
RECURSIVE ParseLines(_, _, _)
ParseLines(lines, i, size) ==
  IF i > size THEN <<<<>>>>
  ELSE IF i > Len(lines) \/ lines[i] = "" THEN <<>>
  ELSE LET m == MatchLine(lines[i])
           category == IF m = <<>> THEN "" ELSE toLowerCase(trim(m[1]))
           rest == ParseLines(lines, i + 1, size)
       IN  IF m = <<>> \/ category \notin VALID_CATEGORIES \/ rest = <<>> THEN <<>>
           ELSE <<<<category>> \o rest[1]>>

parseAIResponse(response, size) == ParseLines(SplitLines(trim(response)), 1, size)

(* ------------------------------------------------------------------ *)
(* Inputs: the raw documents the files may hold, the oracle's answers   *)
(* ------------------------------------------------------------------ *)
ItemFull ==
  [EmptyItem EXCEPT
     !.amount = "1200", !.rg_city = "Halifax", !.rg_state = "NS",
     !.postal_code = "B3H", !.street = "1 Main St", !.latitude = 44,
     !.longitude = 63, !.item_bedrooms = 2, !.item_bathrooms = 1,
     !.sections = <<<<"Pets allowed", "Available now">>, <<"Parking">>>>,
     !.redacted_description = "Spacious 2 bedroom with parking",
     !.primary_photo = "img1", !.marketplace_listing_title = "2 bed flat",
     !.creation_time = 5]

ItemSparse ==
  [EmptyItem EXCEPT !.amount = "1250", !.item_bedrooms = 3, !.creation_time = 7]

ItemBig ==
  [EmptyItem EXCEPT
     !.amount = "1234.5", !.rgd_city = "Dartmouth", !.rgd_state = "NS",
     !.subtitles = <<"Dartmouth, NS", "12 Oak Ave">>,
     !.item_description = "House with 5 bedrooms",
     !.sections = <<<<"Available 2025/01/15", "2 baths">>>>,
     !.redacted_description = "Big family house",
     !.gallery_photo = "img2", !.creation_time = 9]

ItemStudio ==
  [EmptyItem EXCEPT
     !.amount = "abc", !.unit_room_info = "1 bed 1 bath",
     !.redacted_description = "Cozy Studio, pets allowed",
     !.custom_title = "Studio"]

\* unit_room_info is the number 2: the .match call raises a TypeError
ItemBroken ==
  [EmptyItem EXCEPT
     !.amount = "900", !.unit_room_info = "2", !.unit_room_info_kind = "number"]

\* a null element of the JSON array
ItemNull == [EmptyItem EXCEPT !.is_null = TRUE]

WithId(item, id) == [item EXCEPT !.id = id]

Ids == {"a", "b", "c"}

\* The documents of the import-only specification
ImportItems ==
  {WithId(ItemFull, "a"), WithId(ItemSparse, "a"), WithId(ItemBig, "a"),
   WithId(ItemBroken, "a"), WithId(ItemStudio, "b"), WithId(ItemFull, "b"),
   ItemFull, ItemBroken, ItemNull}

\* The documents of the specification of both scripts
Items ==
  {WithId(ItemSparse, "a"), WithId(ItemBig, "b"), WithId(ItemSparse, "c"),
   ItemBroken, ItemNull}

\* Extract and dbData of every input at every instant, tabulated
Extracted ==
  {[item |-> e.item, t |-> e.t, c |-> e.c, data |-> dbData(e.c)] :
     e \in {[item |-> item, t |-> t, c |-> Extract(item, t)] :
              item \in ImportItems \cup Items, t \in 0..MaxClock}}
ExtractedAt(item, t) == CHOOSE e \in Extracted : e.item = item /\ e.t = t

\* What result.response.text() may be
Responses ==
  {"1. Other\n2.  bed ",
   "bed",
   "other\npenthouse",
   " other \n\nbed\n",
   "BED\n2. other\n3.bed"}

\* parseAIResponse of every response for every batch length, tabulated
Parsed ==
  {[response |-> r, size |-> n, categories |-> parseAIResponse(r, n)] :
     r \in Responses, n \in 1..batchSize}
ParsedAt(r, n) == (CHOOSE e \in Parsed : e.response = r /\ e.size = n).categories

(* ------------------------------------------------------------------ *)
(* State                                                                *)
(* ------------------------------------------------------------------ *)
VARIABLES
  listingTable,       \* table Listing: a set of rows
  priceHistoryTable,  \* table PriceHistory: a sequence of rows
  now,                \* the clock read by new Date() and by the store
  pc,                 \* "idle"; "files", "items", "returned"; "batches"
  stats,              \* importListings: the ImportStats of the file
  last,               \* what the last loop iteration did (observation)
  listings,           \* categorizeAllListings: ids returned by findMany
  batchStart,         \* categorizeAllListings: loop index i
  totalProcessed,     \* categorizeAllListings
  totalErrors         \* categorizeAllListings

vars == <<listingTable, priceHistoryTable, now, pc, stats, last, listings,
          batchStart, totalProcessed, totalErrors>>

ZeroStats ==
  [newListings |-> 0, updatedListings |-> 0, skippedListings |-> 0,
   totalProcessed |-> 0, errors |-> 0]

\* last.op: "none", "item" (one iteration of the import loop), "categorize"
\* (the start of a classification run) or "batch" (one iteration of the
\* batch loop).  calls: the store calls issued, in order.  priceChange: the
\* 'Price change' line was logged.  batch: the ids of the batch.  repeat:
\* the item is the one of the iteration before, which was persisted.
\* exitCode: <<>> while the process runs, <<n>> once it has ended with
\* status n ("exit": the end of a run).  For "categorize", "batch" and
\* "exit" the calls also list what the script read, asked of the oracle and
\* released.
NoLast ==
  [op |-> "none", item |-> EmptyItem, outcome |-> "", calls |-> <<>>,
   priceChange |-> FALSE, batch |-> <<>>, repeat |-> FALSE, exitCode |-> <<>>]

\* A release that is never issued
DisconnectNever(calls) == calls

\* prisma.$disconnect() on the way out of a script
Disconnect(calls) == Append(calls, "$disconnect")

\* An exit status that hides the failure
ExitStatusZero(failed) == 0

\* The classification script: process.exit(0) when categorizeAllListings
\* resolves, process.exit(1) when it rejects
ExitStatus(failed) == IF failed THEN 1 ELSE 0

Init ==
  /\ listingTable = {}
  /\ priceHistoryTable = <<>>
  /\ now = 0
  /\ pc = "idle"
  /\ stats = ZeroStats
  /\ last = NoLast
  /\ listings = <<>>
  /\ batchStart = 0
  /\ totalProcessed = 0
  /\ totalErrors = 0

catVars == <<listings, batchStart, totalProcessed, totalErrors>>

\* Time passes
Tick ==
  /\ now < MaxClock
  /\ now' = now + 1
  /\ UNCHANGED <<listingTable, priceHistoryTable, pc, stats, last, catVars>>

(* ------------------------------------------------------------------ *)
(* The import script                                                    *)
(* ------------------------------------------------------------------ *)
\* processAllFiles starts
StartImport ==
  /\ pc = "idle"
  /\ pc' = "files"
  /\ stats' = ZeroStats
  /\ last' = NoLast
  /\ UNCHANGED <<listingTable, priceHistoryTable, now, catVars>>

\* importListings, lines 68-83: the next file is read and parsed
StartFile ==
  /\ pc = "files"
  /\ stats' = ZeroStats
  /\ pc' = "items"
  /\ UNCHANGED <<listingTable, priceHistoryTable, now, last, catVars>>

\* importListings, lines 78-81 and 305-309: reading or parsing the file fails
StartFileFails ==
  /\ pc = "files"
  /\ stats' = [ZeroStats EXCEPT !.errors = 1]
  /\ pc' = "returned"
  /\ UNCHANGED <<listingTable, priceHistoryTable, now, last, catVars>>

\* existingPrice.toString(): the text of the persisted Decimal, in one of the
\* forms a Decimal value can be rendered in
DecimalForms == {"shortest", "scale2"}
DecimalToString(c, form) == IF form = "shortest" THEN DecimalShortest(c) ELSE DecimalScale2(c)

\* Lines 272-282: is the 'Price change' line logged
PriceChangeLogged(existingPrice, data, form) ==
  LET newPrice == parseFloat(data.price[1])[1]
      existingPriceStr == DecimalToString(existingPrice, form)
      newPriceStr == toFixed2(newPrice)
  IN  existingPriceStr # newPriceStr

\* An identifier check that lets every listing through
LacksIdNever(listing) == FALSE

\* Line 234: !listing.id
LacksId(listing) == listing.id = ""

\* importListings, lines 86-301: one iteration of the loop over the items.
\* fail names the store call that raises, if any; form is the text form of
\* the persisted price.
ImportItem(item, fail, form) ==
  /\ pc = "items"
  /\ stats.totalProcessed < MaxDocs
  /\ UNCHANGED <<priceHistoryTable, now, catVars>>
  /\ IF item.is_null
     THEN \* lines 92 and 299 both raise: the outer catch returns the stats
          /\ stats' = [stats EXCEPT !.totalProcessed = @ + 1, !.errors = @ + 2]
          /\ pc' = "returned"
          /\ last' = [NoLast EXCEPT !.op = "item", !.item = item, !.outcome = "aborted"]
          /\ UNCHANGED listingTable
     ELSE
     \E e \in {ExtractedAt(item, now)} :
     LET c == e.c
         data == e.data
         existing == findUnique(listingTable, c.id)
         seen == [NoLast EXCEPT !.op = "item", !.item = item,
                                !.repeat = /\ last.op = "item"
                                           /\ last.item = item
                                           /\ last.outcome \in {"created", "updated"}]
         counted == [stats EXCEPT !.totalProcessed = @ + 1]
     IN
     /\ pc' = pc
     /\ IF c.throws
        THEN /\ stats' = [counted EXCEPT !.errors = @ + 1]
             /\ last' = [seen EXCEPT !.outcome = "error"]
             /\ UNCHANGED listingTable
        ELSE IF LacksId(c)
        THEN /\ stats' = [counted EXCEPT !.skippedListings = @ + 1]
             /\ last' = [seen EXCEPT !.outcome = "skipped"]
             /\ UNCHANGED listingTable
        ELSE IF fail = "findUnique"
        THEN /\ stats' = [counted EXCEPT !.errors = @ + 1]
             /\ last' = [seen EXCEPT !.outcome = "error", !.calls = <<"findUnique">>]
             /\ UNCHANGED listingTable
        ELSE IF existing # <<>>
        THEN LET logged == PriceChangeLogged(existing[1].price, data, form) IN
             IF fail = "write"
             THEN /\ stats' = [counted EXCEPT !.errors = @ + 1]
                  /\ last' = [seen EXCEPT !.outcome = "error", !.priceChange = logged,
                                          !.calls = <<"findUnique", "update">>]
                  /\ UNCHANGED listingTable
             ELSE /\ listingTable' = TableUpdate(listingTable, c.id, data, now)
                  /\ stats' = [counted EXCEPT !.updatedListings = @ + 1]
                  /\ last' = [seen EXCEPT !.outcome = "updated", !.priceChange = logged,
                                          !.calls = <<"findUnique", "update">>]
        ELSE \* a create of an id that is in the table violates @id and raises
             IF fail = "write" \/ \E r \in listingTable : r.id = c.id
             THEN /\ stats' = [counted EXCEPT !.errors = @ + 1]
                  /\ last' = [seen EXCEPT !.outcome = "error",
                                          !.calls = <<"findUnique", "create">>]
                  /\ UNCHANGED listingTable
             ELSE /\ listingTable' = TableCreate(listingTable, c.id, data, now)
                  /\ stats' = [counted EXCEPT !.newListings = @ + 1]
                  /\ last' = [seen EXCEPT !.outcome = "created",
                                          !.calls = <<"findUnique", "create">>]

\* importListings returns (line 303 or 308); processAllFiles adds the stats to
\* its totals, prints them and goes on to the next file
EndFile ==
  /\ pc \in {"items", "returned"}
  /\ pc' = "files"
  /\ stats' = ZeroStats
  /\ UNCHANGED <<listingTable, priceHistoryTable, now, last, catVars>>

\* processAllFiles resolves; the script disconnects and the process ends
EndImport ==
  /\ pc = "files"
  /\ pc' = "idle"
  /\ last' = [NoLast EXCEPT !.op = "exit", !.outcome = "imported",
                            !.calls = Disconnect(<<>>), !.exitCode = <<0>>]
  /\ UNCHANGED <<listingTable, priceHistoryTable, now, stats, catVars>>

(* ------------------------------------------------------------------ *)
(* The classification script                                            *)
(* ------------------------------------------------------------------ *)
Min(a, b) == IF a < b THEN a ELSE b

RowOf(table, id) == CHOOSE r \in table : r.id = id

\* A where clause that selects every listing
NeedsCategoryAlways(r) == TRUE

\* Lines 162-167: the where clause of findMany
NeedsCategory(r) == r.ai_category_v1 = <<"">> \/ r.ai_category_v1 = <<>>

\* The orders findMany may return a set of rows in (no orderBy is given)
RECURSIVE Orders(_)
Orders(S) ==
  IF S = {} THEN {<<>>}
  ELSE UNION {{<<x>> \o o : o \in Orders(S \ {x})} : x \in S}

\* The table after the first k updates of lines 204-210
RECURSIVE ApplyCategories(_, _, _, _, _)
ApplyCategories(table, batch, categories, k, today) ==
  IF k = 0 THEN table
  ELSE TableUpdate(ApplyCategories(table, batch, categories, k - 1, today),
                   batch[k], [NoData EXCEPT !.ai_category_v1 = <<categories[k]>>], today)

\* categorizeAllListings, lines 150-188 and 233-250: the API key is missing,
\* or the prompt template cannot be read, or findMany raises, or it returns
\* no listing, or it returns the listings to do.  On the first four paths
\* the finally block disconnects and the process exits.
StartCategorize(hasKey, hasPrompt, queryFails) ==
  /\ pc = "idle"
  /\ batchStart' = 0
  /\ totalProcessed' = 0
  /\ totalErrors' = 0
  /\ UNCHANGED <<listingTable, priceHistoryTable, now, stats>>
  /\ LET seen == [NoLast EXCEPT !.op = "categorize"] IN
     IF ~hasKey
     THEN /\ pc' = "idle"
          /\ listings' = <<>>
          /\ last' = [seen EXCEPT !.outcome = "no_key", !.calls = Disconnect(<<>>),
                                  !.exitCode = <<ExitStatus(TRUE)>>]
     ELSE IF ~hasPrompt
     THEN /\ pc' = "idle"
          /\ listings' = <<>>
          /\ last' = [seen EXCEPT !.outcome = "no_prompt",
                                  !.calls = Disconnect(<<"readFile">>),
                                  !.exitCode = <<ExitStatus(TRUE)>>]
     ELSE IF queryFails
     THEN /\ pc' = "idle"
          /\ listings' = <<>>
          /\ last' = [seen EXCEPT !.outcome = "query_failed",
                                  !.calls = Disconnect(<<"readFile", "findMany">>),
                                  !.exitCode = <<ExitStatus(TRUE)>>]
     ELSE /\ \E o \in Orders({r.id : r \in {x \in listingTable : NeedsCategory(x)}}) :
               listings' = o
          /\ IF Len(listings') = 0
             THEN /\ pc' = "idle"
                  /\ last' = [seen EXCEPT !.outcome = "empty",
                                          !.calls = Disconnect(<<"readFile", "findMany">>),
                                          !.exitCode = <<ExitStatus(FALSE)>>]
             ELSE /\ pc' = "batches"
                  /\ last' = [seen EXCEPT !.outcome = "started",
                                          !.calls = <<"readFile", "findMany">>]

\* categorizeAllListings, lines 195-227: one iteration of the batch loop.
\* oracleFails: generateContent raises; response: the text it returns
\* otherwise; stored: how many updates succeed before the store raises
\* (Len(batch) when none does).
ProcessBatch(oracleFails, response, stored) ==
  /\ pc = "batches"
  /\ batchStart < Len(listings)
  /\ LET batch == SubSeq(listings, batchStart + 1,
                         Min(batchStart + batchSize, Len(listings)))
         parsed == ParsedAt(response, Len(batch))
         attempted == IF oracleFails \/ parsed = <<>> THEN 0
                      ELSE Min(stored + 1, Len(batch))
         seen == [NoLast EXCEPT !.op = "batch", !.batch = batch,
                                !.calls = <<"generateContent">>
                                            \o [k \in 1..attempted |-> "update"]]
     IN  /\ stored \in 0..Len(batch)
         /\ IF oracleFails \/ parsed = <<>>
            THEN /\ totalErrors' = totalErrors + Len(batch)
                 /\ last' = [seen EXCEPT !.outcome =
                               IF oracleFails THEN "oracle_error" ELSE "invalid"]
                 /\ UNCHANGED <<listingTable, totalProcessed>>
            ELSE /\ listingTable' = ApplyCategories(listingTable, batch, parsed[1],
                                                    stored, now)
                 /\ totalProcessed' = totalProcessed + stored
                 /\ totalErrors' = IF stored < Len(batch)
                                   THEN totalErrors + Len(batch) ELSE totalErrors
                 /\ last' = [seen EXCEPT !.outcome =
                               IF stored < Len(batch) THEN "storage_error" ELSE "ok"]
  /\ batchStart' = batchStart + batchSize
  /\ UNCHANGED <<priceHistoryTable, now, pc, stats, listings>>

\* categorizeAllListings, lines 229-250: the loop is over, the finally block
\* disconnects and the process exits
EndCategorize ==
  /\ pc = "batches"
  /\ batchStart >= Len(listings)
  /\ pc' = "idle"
  /\ listings' = <<>>
  /\ batchStart' = 0
  /\ totalProcessed' = 0
  /\ totalErrors' = 0
  /\ last' = [NoLast EXCEPT !.op = "exit", !.outcome = "categorized",
                            !.calls = Disconnect(<<>>),
                            !.exitCode = <<ExitStatus(FALSE)>>]
  /\ UNCHANGED <<listingTable, priceHistoryTable, now, stats>>

\* Someone empties the category of a listing by hand (the column is
\* nullable, and the classification script only looks for such rows)
ClearCategory(id, value) ==
  /\ pc = "idle"
  /\ \E r \in listingTable : r.id = id /\ r.ai_category_v1 # value
  /\ listingTable' = {IF r.id = id THEN [r EXCEPT !.ai_category_v1 = value] ELSE r :
                        r \in listingTable}
  /\ last' = NoLast
  /\ UNCHANGED <<priceHistoryTable, now, pc, stats, catVars>>

FailPoints == {"none", "findUnique", "write"}

(* ------------------------------------------------------------------ *)
(* The functions of the import script, applied to one input each        *)
(* ------------------------------------------------------------------ *)
Descriptions ==
  {"", "Cozy studio apartment downtown", "Shared room in house, $500/mo",
   "Spacious 2 bedroom with parking", "Available for Airbnb, nightly rate",
   "Studio, short term", "Roommate wanted, shared room",
   "Shared bedroom in 1 bedroom unit", "Two bedroom house",
   "3-bedroom, shared kitchen", "four bedroom", "Nice place"}

CategoryInputs ==
  {[op |-> "input", fn |-> "determineListingCategory", description |-> d,
    bedrooms |-> b, result |-> ""] : d \in Descriptions, b \in 0..MaxBedrooms}

\* Amounts written as a whole part, a point and a fraction, and texts that
\* are no number
PriceInputs ==
  {[op |-> "input", fn |-> "price", whole |-> w, frac |-> f,
    item |-> [EmptyItem EXCEPT !.amount = ToString(w) \o "." \o f],
    result |-> [throws |-> FALSE, priceInCents |-> 0, price |-> ""]] :
     w \in {0, 7, 1234}, f \in {"", "5", "50", "05", "99", "125", "994"}}
  \cup
  {[op |-> "input", fn |-> "price", whole |-> 0, frac |-> "",
    item |-> [EmptyItem EXCEPT !.amount = a],
    result |-> [throws |-> FALSE, priceInCents |-> 0, price |-> ""]] :
     a \in {"", "abc", ".", " "}}

CountInputs ==
  {[op |-> "input", fn |-> "counts",
    item |-> [EmptyItem EXCEPT !.title_text = t, !.item_description = d,
                               !.item_bedrooms = bed, !.item_bathrooms = bath,
                               !.unit_room_info = u],
    result |-> [throws |-> FALSE, bedrooms |-> 0, bathrooms |-> 0]] :
     t \in {"", "2 bedroom 1 bathroom flat", "Flat, one bedroom"},
     d \in {"", "It has 3 bedrooms"},
     bed \in {0, 4}, bath \in {0, 2}, u \in {"", "5 bed 3 bath"}}

InitFunctions ==
  /\ listingTable = {}
  /\ priceHistoryTable = <<>>
  /\ now = 0
  /\ pc = "idle"
  /\ stats = ZeroStats
  /\ last \in CategoryInputs \cup PriceInputs \cup CountInputs
  /\ listings = <<>>
  /\ batchStart = 0
  /\ totalProcessed = 0
  /\ totalErrors = 0

\* determineListingCategory(description, bedrooms)
ApplyCategory ==
  /\ last.op = "input"
  /\ last.fn = "determineListingCategory"
  /\ last' = [last EXCEPT !.op = "output",
                          !.result = determineListingCategory(last.description,
                                                              last.bedrooms)]
  /\ UNCHANGED <<listingTable, priceHistoryTable, now, pc, stats, catVars>>

\* Lines 90-99 and 244-249: the price in cents and the price handed to the
\* store
ApplyPrice ==
  /\ last.op = "input"
  /\ last.fn = "price"
  /\ \E c \in {Extract(last.item, now)} :
       last' = [last EXCEPT !.op = "output",
                            !.result = [throws |-> c.throws,
                                        priceInCents |-> c.priceInCents,
                                        price |-> dbData(c).price[1]]]
  /\ UNCHANGED <<listingTable, priceHistoryTable, now, pc, stats, catVars>>

\* Lines 130-142: the bedroom and bathroom counts
ApplyCounts ==
  /\ last.op = "input"
  /\ last.fn = "counts"
  /\ \E c \in {Extract(last.item, now)} :
       last' = [last EXCEPT !.op = "output",
                            !.result = [throws |-> c.throws,
                                        bedrooms |-> c.bedrooms,
                                        bathrooms |-> c.bathrooms]]
  /\ UNCHANGED <<listingTable, priceHistoryTable, now, pc, stats, catVars>>

NextFunctions ==
  \/ ApplyCategory
  \/ ApplyPrice
  \/ ApplyCounts

SpecFunctions == InitFunctions /\ [][NextFunctions]_vars

\* The import script alone
NextImport ==
  \/ Tick
  \/ StartImport
  \/ StartFile
  \/ StartFileFails
  \/ \E item \in ImportItems, fail \in FailPoints, form \in DecimalForms :
       ImportItem(item, fail, form)
  \/ EndFile
  \/ EndImport

SpecImport == Init /\ [][NextImport]_vars

\* Both scripts, run one after the other in any order
Next ==
  \/ Tick
  \/ StartImport
  \/ StartFile
  \/ StartFileFails
  \/ \E item \in Items, fail \in FailPoints, form \in DecimalForms :
       ImportItem(item, fail, form)
  \/ EndFile
  \/ EndImport
  \/ \E hasKey \in BOOLEAN, hasPrompt \in BOOLEAN, queryFails \in BOOLEAN :
       StartCategorize(hasKey, hasPrompt, queryFails)
  \/ \E oracleFails \in BOOLEAN, response \in Responses, stored \in 0..batchSize :
       ProcessBatch(oracleFails, response, stored)
  \/ EndCategorize
  \/ \E id \in Ids, value \in {<<>>, <<"">>} : ClearCategory(id, value)

Spec == Init /\ [][Next]_vars

(* ------------------------------------------------------------------ *)
(* Properties                                                           *)
(* ------------------------------------------------------------------ *)
\* The step is one iteration of the import loop; last' describes it
IsImportStep == stats'.totalProcessed = stats.totalProcessed + 1

\* The candidate values of the item of that iteration
StepCandidate == ExtractedAt(last'.item, now).c

HasRow(table, id) == \E r \in table : r.id = id

\* The step is one iteration of the batch loop; last' describes it
IsBatchStep == last'.op = "batch" /\ batchStart' = batchStart + batchSize

\* C1: an import appends one PriceHistory entry, carrying the new price,
\* exactly when the listing exists and its persisted price differs from the
\* newly computed one; otherwise it appends none.
C1_HistoryIffPriceChanged ==
  [][IsImportStep =>
       LET id == last'.item.id
           changed == /\ last'.outcome = "updated"
                      /\ RowOf(listingTable, id).price # RowOf(listingTable', id).price
       IN  IF changed
           THEN /\ Len(priceHistoryTable') = Len(priceHistoryTable) + 1
                /\ SubSeq(priceHistoryTable', 1, Len(priceHistoryTable)) = priceHistoryTable
                /\ priceHistoryTable'[Len(priceHistoryTable')].listingId = id
                /\ priceHistoryTable'[Len(priceHistoryTable')].price
                     = RowOf(listingTable', id).price
           ELSE priceHistoryTable' = priceHistoryTable]_vars

\* C2: an update issued by importListings leaves every non-empty persisted
\* category as it is.
C2_ImportKeepsCategory ==
  [][IsImportStep /\ last'.outcome = "updated" =>
       \A r \in listingTable :
         ~NeedsCategory(r) =>
           RowOf(listingTable', r.id).ai_category_v1 = r.ai_category_v1]_vars

\* The sparse merge of one column: an absent, empty or falsy candidate value
\* keeps the persisted one, a present value replaces it
SparseMerged(old, present, value) == IF present THEN <<value>> ELSE old

\* C3: on the update path each of the fourteen optional fields is merged
\* sparsely.
C3_SparseMerge ==
  [][IsImportStep /\ last'.outcome = "updated" =>
       LET c == StepCandidate
           old == RowOf(listingTable, c.id)
           new == RowOf(listingTable', c.id)
       IN  /\ new.listingTitle = SparseMerged(old.listingTitle, c.listingTitle # "", c.listingTitle)
           /\ new.city = SparseMerged(old.city, c.city # "", c.city)
           /\ new.state = SparseMerged(old.state, c.state # "", c.state)
           /\ new.postalCode = SparseMerged(old.postalCode, c.postalCode # "", c.postalCode)
           /\ new.streetAddress
                = SparseMerged(old.streetAddress, c.streetAddress # "", c.streetAddress)
           /\ new.description = SparseMerged(old.description, c.description # "", c.description)
           /\ new.latitude = SparseMerged(old.latitude, c.latitude # 0, ToString(c.latitude))
           /\ new.longitude = SparseMerged(old.longitude, c.longitude # 0, ToString(c.longitude))
           /\ new.bedrooms = SparseMerged(old.bedrooms, c.bedrooms # 0, c.bedrooms)
           /\ new.bathrooms = SparseMerged(old.bathrooms, c.bathrooms # 0, c.bathrooms)
           /\ new.amenities = IF c.amenities # <<>> THEN c.amenities ELSE old.amenities
           /\ new.petFriendly = SparseMerged(old.petFriendly, c.petFriendly, c.petFriendly)
           /\ new.availableDate = IF c.availableDate # <<>> THEN c.availableDate
                                  ELSE old.availableDate
           /\ new.imageUrl = SparseMerged(old.imageUrl, c.imageUrl # "", c.imageUrl)]_vars

\* No two rows of Listing have the same id
OneRowPerId == \A r1, r2 \in listingTable : r1.id = r2.id => r1 = r2

\* C4: the store holds at most one row per id; an item whose id is persisted
\* is never created again and, unless the store raises, is updated and
\* counted as updated; an item whose id is not persisted is never updated
\* and, unless the store raises, is created and counted as new.
C4_OneRowPerIdUpdateNotCreate ==
  /\ []OneRowPerId
  /\ [][IsImportStep /\ ~last'.item.is_null /\ ~StepCandidate.throws
          /\ last'.item.id # "" =>
          LET id == last'.item.id
              raised == stats'.errors # stats.errors
          IN  IF HasRow(listingTable, id)
              THEN /\ \A i \in 1..Len(last'.calls) : last'.calls[i] # "create"
                   /\ stats'.newListings = stats.newListings
                   /\ ~raised => /\ last'.calls = <<"findUnique", "update">>
                                 /\ stats'.updatedListings = stats.updatedListings + 1
                   /\ {r.id : r \in listingTable'} = {r.id : r \in listingTable}
              ELSE /\ \A i \in 1..Len(last'.calls) : last'.calls[i] # "update"
                   /\ stats'.updatedListings = stats.updatedListings
                   /\ ~raised => /\ last'.calls = <<"findUnique", "create">>
                                 /\ stats'.newListings = stats.newListings + 1
                                 /\ HasRow(listingTable', id)]_vars

\* The same id occurred twice in one file: created, then updated, one row
C4_Witness ==
  /\ pc = "items"
  /\ stats.newListings = 1
  /\ stats.updatedListings = 1
  /\ last.outcome = "updated"
  /\ Cardinality(listingTable) = 1

NoRowWithoutId == \A r \in listingTable : r.id # ""

\* C5 as stated: every document without an identifier is counted as skipped
\* and causes no store call, and no row without an identifier exists.
C5_NoIdIsSkipped ==
  /\ []NoRowWithoutId
  /\ [][IsImportStep /\ ~last'.item.is_null /\ last'.item.id = "" =>
          /\ stats'.skippedListings = stats.skippedListings + 1
          /\ last'.calls = <<>>
          /\ listingTable' = listingTable]_vars

\* C5, amended: an item without an identifier causes no store call and no
\* row without an identifier exists; the item is counted as skipped when its
\* extraction completes, as one error when the extraction raises, and as two
\* errors, ending the file, when the item is null.
C5_NoIdNoStoreCall ==
  /\ []NoRowWithoutId
  /\ [][IsImportStep /\ last'.item.id = "" =>
          /\ last'.calls = <<>>
          /\ listingTable' = listingTable
          /\ stats'.newListings = stats.newListings
          /\ stats'.updatedListings = stats.updatedListings
          /\ IF last'.item.is_null
             THEN /\ stats'.errors = stats.errors + 2
                  /\ stats'.skippedListings = stats.skippedListings
                  /\ pc' = "returned"
             ELSE IF StepCandidate.throws
             THEN /\ stats'.errors = stats.errors + 1
                  /\ stats'.skippedListings = stats.skippedListings
             ELSE /\ stats'.errors = stats.errors
                  /\ stats'.skippedListings = stats.skippedListings + 1]_vars

\* A file held an item without identifier that was skipped and one whose
\* extraction raised
C5_Witness ==
  /\ last.op = "item"
  /\ last.item.id = ""
  /\ stats.skippedListings = 1
  /\ stats.errors = 1
  /\ stats.totalProcessed = 2

\* C6: a batch is applied to the store as a whole or not at all: after one
\* iteration of the batch loop either every listing of the batch has
\* received a category or none has changed, and a response that fails the
\* validation changes nothing.
C6_BatchAllOrNothing ==
  [][IsBatchStep =>
       LET batch == last'.batch IN
       /\ last'.outcome \in {"invalid", "oracle_error"} => listingTable' = listingTable
       /\ \/ \A i \in 1..Len(batch) : ~NeedsCategory(RowOf(listingTable', batch[i]))
          \/ \A i \in 1..Len(batch) :
               RowOf(listingTable', batch[i]) = RowOf(listingTable, batch[i])]_vars

\* C7: a failed batch does not end the run (the loop goes on with the next
\* batch of the same list), and its listings keep the category they had,
\* which is still empty, so that the next run selects them again.
C7_FailedBatchKeepsCategories ==
  [][IsBatchStep /\ last'.outcome # "ok" =>
       LET batch == last'.batch IN
       /\ pc' = "batches"
       /\ listings' = listings
       /\ \A i \in 1..Len(batch) :
            /\ RowOf(listingTable', batch[i]).ai_category_v1
                 = RowOf(listingTable, batch[i]).ai_category_v1
            /\ NeedsCategory(RowOf(listingTable', batch[i]))]_vars

\* C8 as stated: importing a document again, right after its own import was
\* persisted, changes no row and adds no price-history entry.
C8_ReimportChangesNothing ==
  [][IsImportStep /\ last'.repeat =>
       /\ listingTable' = listingTable
       /\ priceHistoryTable' = priceHistoryTable]_vars

\* C8, amended: such a re-import adds no price-history entry and changes no
\* column of any row, except that the row of the document gets a new
\* updatedAt and, when its availability label says 'now', the instant of the
\* re-import as availableDate.
C8_ReimportChangesTimestampsOnly ==
  [][IsImportStep /\ last'.repeat =>
       /\ priceHistoryTable' = priceHistoryTable
       /\ {r.id : r \in listingTable'} = {r.id : r \in listingTable}
       /\ \A r \in listingTable :
            LET n == RowOf(listingTable', r.id) IN
            IF r.id # last'.item.id THEN n = r
            ELSE /\ [n EXCEPT !.updatedAt = r.updatedAt,
                              !.availableDate = r.availableDate] = r
                 /\ n.updatedAt \in {r.updatedAt, DateOfClock(now)}
                 /\ n.availableDate # r.availableDate =>
                      /\ n.availableDate = <<DateOfClock(now)>>
                      /\ r.availableDate # <<>>
                      /\ r.availableDate[1].src = "clock"]_vars

\* A document with amenities and an 'Available now' label was imported
\* again right after its own import, and the update went through
C8_Witness ==
  /\ last.op = "item"
  /\ last.repeat
  /\ last.outcome = "updated"
  /\ last.item = WithId(ItemFull, "a")
  /\ now = 1
  /\ RowOf(listingTable, "a").availableDate = <<DateOfClock(1)>>

\* C9: on the update path the 'Price change' line is logged exactly when the
\* persisted price and the newly computed price differ in value.
C9_PriceChangeLoggedIffDiffers ==
  [][IsImportStep /\ Len(last'.calls) = 2 /\ last'.calls[2] = "update" =>
       (last'.priceChange
          <=> RowOf(listingTable, last'.item.id).price # StepCandidate.priceInCents)]_vars

\* C10: every category in the store is empty, NULL or in the vocabulary.
C10_CategoryInVocabulary ==
  \A r \in listingTable :
    NeedsCategory(r) \/ r.ai_category_v1[1] \in VALID_CATEGORIES

\* The category column is NULL or the empty string
HasNoCategory(r) == r.ai_category_v1 \in {<<>>, <<"">>}

InBatch(id, batch) == \E i \in 1..Len(batch) : batch[i] = id

\* The step starts a classification run that has listings to do
IsQueryStep == last'.op = "categorize" /\ pc' = "batches"

\* C11 as stated: a classification run selects only listings without a
\* category, changes no other listing, and changes no field but the category
\* of those it selected.
C11_RunWritesCategoryOnly ==
  /\ [][IsQueryStep =>
          /\ listingTable' = listingTable
          /\ \A i \in 1..Len(listings') :
               HasNoCategory(RowOf(listingTable, listings'[i]))]_vars
  /\ [][IsBatchStep =>
          /\ {r.id : r \in listingTable'} = {r.id : r \in listingTable}
          /\ \A r \in listingTable :
               LET n == RowOf(listingTable', r.id) IN
               IF InBatch(r.id, last'.batch)
               THEN /\ HasNoCategory(r)
                    /\ [n EXCEPT !.ai_category_v1 = r.ai_category_v1] = r
               ELSE n = r]_vars
  /\ [][pc = "batches" /\ pc' = "idle" => listingTable' = listingTable]_vars

\* C11, amended: as above, except that the store also sets updatedAt of
\* every listing whose category the run writes.
C11_RunWritesCategoryAndUpdatedAt ==
  /\ [][IsQueryStep =>
          /\ listingTable' = listingTable
          /\ \A i \in 1..Len(listings') :
               HasNoCategory(RowOf(listingTable, listings'[i]))]_vars
  /\ [][IsBatchStep =>
          /\ {r.id : r \in listingTable'} = {r.id : r \in listingTable}
          /\ \A r \in listingTable :
               LET n == RowOf(listingTable', r.id) IN
               IF InBatch(r.id, last'.batch)
               THEN /\ HasNoCategory(r)
                    /\ [n EXCEPT !.ai_category_v1 = r.ai_category_v1,
                                 !.updatedAt = r.updatedAt] = r
                    /\ n.updatedAt \in {r.updatedAt, DateOfClock(now)}
               ELSE n = r]_vars
  /\ [][pc = "batches" /\ pc' = "idle" => listingTable' = listingTable]_vars

\* A batch was stored at instant 1 while another listing, which has a
\* category, was not selected
C11_Witness ==
  /\ last.op = "batch"
  /\ last.outcome = "ok"
  /\ now = 1
  /\ \E r \in listingTable :
       /\ InBatch(r.id, last.batch)
       /\ ~HasNoCategory(r)
       /\ r.updatedAt = DateOfClock(1)
  /\ \E r \in listingTable : ~InBatch(r.id, last.batch) /\ ~HasNoCategory(r)

\* The step is the start of a classification run; last' describes it
IsStartStep == pc = "idle" /\ last'.op = "categorize" /\ now' = now

\* C12: without the API key the run ends at once: nothing is read, queried,
\* asked of the oracle or written, and the process exits with status 1.
C12_NoKeyAbortsFirst ==
  [][IsStartStep /\ last'.outcome = "no_key" =>
       /\ \A i \in 1..Len(last'.calls) :
            last'.calls[i] \notin {"readFile", "findMany", "generateContent", "update"}
       /\ listingTable' = listingTable
       /\ listings' = <<>>
       /\ pc' = "idle"
       /\ last'.exitCode # <<>>
       /\ last'.exitCode[1] # 0]_vars

\* A run without the key ended while a listing was waiting for a category
C12_Witness ==
  /\ last.op = "categorize"
  /\ last.outcome = "no_key"
  /\ \E r \in listingTable : HasNoCategory(r)

\* $disconnect is the last call of the sequence and occurs nowhere else
ReleasedOnce(calls) ==
  /\ Len(calls) >= 1
  /\ calls[Len(calls)] = "$disconnect"
  /\ \A i \in 1..(Len(calls) - 1) : calls[i] # "$disconnect"

\* The step ends a run of one of the two scripts
IsExitStep == (pc # "idle" /\ pc' = "idle") \/ (IsStartStep /\ pc' = "idle")

\* C13: every run of either script ends with exactly one release of the
\* connection, issued after its last store call; nothing is released while
\* the run goes on.
C13_ReleasedOnceOnExit ==
  /\ [][IsExitStep => last'.exitCode # <<>> /\ ReleasedOnce(last'.calls)]_vars
  /\ [](last.exitCode # <<>> => pc = "idle" /\ ReleasedOnce(last.calls))
  /\ [](last.exitCode = <<>> =>
         \A i \in 1..Len(last.calls) : last.calls[i] # "$disconnect")

\* A classification run that stored categories has ended
C13_Witness ==
  /\ last.op = "exit"
  /\ last.outcome = "categorized"
  /\ \E r \in listingTable : r.ai_category_v1 = <<"bed">>

\* The rules of the categorizer in their order; rule 5 is the bedroom count
CategoryRules ==
  <<[words |-> {"airbnb", "short term", "short-term", "nightly", "per night",
                "vacation rental"}, category |-> "airbnb"],
    [words |-> {"studio"}, category |-> "studio apartment"],
    [words |-> {"room for rent", "roommate", "shared apartment", "shared kitchen",
                "shared bathroom"}, category |-> "bedroom"],
    [words |-> {"shared room", "shared bedroom"}, category |-> "bed"],
    [words |-> {}, category |-> "bdr apartment"],
    [words |-> {"1 bedroom", "1-bedroom", "one bedroom"}, category |-> "1bdr apartment"],
    [words |-> {"2 bedroom", "2-bedroom", "two bedroom"}, category |-> "2bdr apartment"],
    [words |-> {"3 bedroom", "3-bedroom", "three bedroom"}, category |-> "3bdr apartment"],
    [words |-> {"4 bedroom", "4-bedroom", "four bedroom"}, category |-> "4bdr apartment"]>>

RuleApplies(i, desc, bedrooms) ==
  IF i = 5 THEN bedrooms # 0
  ELSE \E w \in CategoryRules[i].words : Includes(desc, w)

RuleCategory(i, bedrooms) ==
  IF i = 5 THEN ToString(bedrooms) \o CategoryRules[i].category
  ELSE CategoryRules[i].category

\* C14: the categorizer returns 'unknown' for an empty description, else the
\* category of the first rule, in the fixed order, that applies to the
\* lower-cased description and the bedroom count, else 'unknown'.
C14_FirstMatchingRuleWins ==
  last.op = "output" /\ last.fn = "determineListingCategory" =>
    /\ last.description = "" => last.result = "unknown"
    /\ last.description # "" =>
         LET desc == toLowerCase(last.description)
             applying == {i \in 1..Len(CategoryRules) :
                            RuleApplies(i, desc, last.bedrooms)}
         IN  IF applying = {} THEN last.result = "unknown"
             ELSE \E i \in applying :
                    /\ \A j \in applying : i <= j
                    /\ last.result = RuleCategory(i, last.bedrooms)
    /\ last.description = "Shared room in house, $500/mo" => last.result = "bed"
    /\ last.description = "Available for Airbnb, nightly rate" => last.result = "airbnb"

\* 'Shared room' with a known bedroom count: rule 4 wins over rule 5
C14_Witness ==
  /\ last.op = "output"
  /\ last.fn = "determineListingCategory"
  /\ last.description = "Shared room in house, $500/mo"
  /\ last.bedrooms = 2
  /\ last.result = "bed"

\* The hundredths a fraction text stands for, rounded half up
Hundredths(frac) ==
  CASE frac = "" -> 0
    [] frac = "5" -> 50
    [] frac = "50" -> 50
    [] frac = "05" -> 5
    [] frac = "99" -> 99
    [] frac = "125" -> 13
    [] frac = "994" -> 99

\* The text of an amount of cents with two decimals
CentsText(c) ==
  ToString(c \div 100) \o "." \o (IF c % 100 < 10 THEN "0" ELSE "") \o ToString(c % 100)

\* C15: the price in cents is the amount times 100, rounded, and 0 when the
\* amount is missing or no number; the extraction does not raise; the price
\* handed to the store is that integer with two decimals.
C15_PriceInCents ==
  last.op = "output" /\ last.fn = "price" =>
    LET cents == 100 * last.whole + Hundredths(last.frac) IN
    /\ ~last.result.throws
    /\ last.result.priceInCents = cents
    /\ last.result.price = CentsText(cents)
    /\ last.item.amount \in {"", "abc", ".", " "} => last.result.priceInCents = 0
    /\ last.item.amount = "1234.5" =>
         last.result.priceInCents = 123450 /\ last.result.price = "1234.50"

\* The amount "1234.5" was converted
C15_Witness ==
  /\ last.op = "output"
  /\ last.fn = "price"
  /\ last.item.amount = "1234.5"
  /\ last.result.price = "1234.50"

\* Steps (a) to (d) for one count: the first that yields a value wins
CountBySteps(item, word, structured, short) ==
  LET a == MatchCount(item.title_text, word)
      b == MatchCount(item.item_description, word)
      d == MatchCount(item.unit_room_info, short)
  IN  IF a # <<>> THEN parseInt(a[1])
      ELSE IF b # <<>> THEN parseInt(b[1])
      ELSE IF structured # 0 THEN structured
      ELSE IF d # <<>> THEN parseInt(d[1])
      ELSE 0

\* C17: each of the two counts is the value of the first of the steps (a)
\* title, (b) description, (c) structured field, (d) unit-room-info that
\* yields one.
C17_CountsByOrderedSteps ==
  last.op = "output" /\ last.fn = "counts" =>
    /\ ~last.result.throws
    /\ last.result.bedrooms
         = CountBySteps(last.item, "bedroom", last.item.item_bedrooms, "bed")
    /\ last.result.bathrooms
         = CountBySteps(last.item, "bathroom", last.item.item_bathrooms, "bath")

\* C16: an item whose extraction or persistence fails adds exactly one to
\* the error counter and changes no row, and the loop goes on with the next
\* item of the file.
C16_FailureCountsOnceAndContinues ==
  [][IsImportStep /\ last'.outcome \notin {"created", "updated", "skipped"} =>
       /\ stats'.errors = stats.errors + 1
       /\ listingTable' = listingTable
       /\ pc' = "items"]_vars

\* C18: right after importListings has created or updated a listing, the
\* listing has a category, so the query of the classification run does not
\* select it.
C18_ImportedListingHasCategory ==
  [][IsImportStep /\ last'.outcome \in {"created", "updated"} =>
       LET row == RowOf(listingTable', last'.item.id) IN
       /\ row.ai_category_v1 # <<>>
       /\ row.ai_category_v1 # <<"">>
       /\ \A o \in Orders({r.id : r \in {x \in listingTable' : NeedsCategory(x)}}) :
            ~InBatch(row.id, o)]_vars

\* A listing without description was imported again at instant 1: the
\* update went through and its category is 'unknown'
C18_Witness ==
  /\ last.op = "item"
  /\ last.outcome = "updated"
  /\ last.item = WithId(ItemSparse, "a")
  /\ now = 1
  /\ \E r \in listingTable :
       r.id = "a" /\ r.ai_category_v1 = <<"unknown">> /\ r.updatedAt = DateOfClock(1)

====
